---- MODULE Spec2Model ----
(***************************************************************************)
(* Model of the LLM routing gateway of src/gateway.go (the metrics-bearing *)
(* variant, lines 163-390): LLMProxyHandler, MetricsHandler, the shared    *)
(* globalMetrics guarded by metricsMutex, and the net/http ResponseWriter  *)
(* each handler writes to.                                                 *)
(*                                                                         *)
(* Each of NumRequests goroutines runs LLMProxyHandler once and each of    *)
(* NumReaders goroutines runs MetricsHandler once, all interleaved.  A     *)
(* message's content is represented by its byte length, the only thing     *)
(* the code uses of it (len(message.Content)).  Costs are integers in      *)
(* units of 1e-7 USD.                                                      *)
(***************************************************************************)
EXTENDS Integers, Sequences, FiniteSets, TLC

\* ------------------------------------------------------------------ bounds

NumRequests == 2
NumReaders == 1

Requests == 1..NumRequests
Readers == 1..NumReaders

\* --------------------------------------------------------------- constants

cheapModelURL == "http://localhost:8081/v1/chat/completions"
expensiveModelURL == "http://localhost:8082/v1/chat/completions"
promptLengthThreshold == 150
cheapModelCostPerChar == 1
expensiveModelCostPerChar == 15

StatusOK == 200
StatusBadRequest == 400
StatusMethodNotAllowed == 405
StatusInternalServerError == 500
StatusBadGateway == 502

\* -------------------------------------------------------------- data types

\* Message{Role, Content}; Content stands for a string of that many bytes.
Msg(role, n) == [Role |-> role, Content |-> n]

\* A request body as the caller sent it: either bytes json.Unmarshal rejects,
\* or a JSON document holding the messages plus whatever else the document
\* carries that RequestPayload does not declare (extra).
Body(msgs, extra) == [valid |-> TRUE, Messages |-> msgs, extra |-> extra]
BadBody == [valid |-> FALSE, Messages |-> <<>>, extra |-> "not json"]
NoBody == [valid |-> FALSE, Messages |-> <<>>, extra |-> ""]

\* json.Unmarshal(bodyBytes, &payload): an error, or the RequestPayload, which
\* keeps the messages and drops every field the struct does not declare.
Unmarshal(bodyBytes) ==
    IF bodyBytes.valid
    THEN [err |-> FALSE, payload |-> [Messages |-> bodyBytes.Messages]]
    ELSE [err |-> TRUE, payload |-> [Messages |-> <<>>]]

\* Mutant of UserLength: the content of every message is counted, whatever
\* its role.
RECURSIVE UserLengthAllRoles(_)
UserLengthAllRoles(msgs) ==
    IF msgs = <<>> THEN 0
    ELSE Head(msgs).Content + UserLengthAllRoles(Tail(msgs))

RECURSIVE UserLength(_)
UserLength(msgs) ==
    IF msgs = <<>> THEN 0
    ELSE (IF Head(msgs).Role = "user" THEN Head(msgs).Content ELSE 0)
         + UserLength(Tail(msgs))

\* Mutant of getPromptLength: a body that does not parse counts as an empty
\* prompt instead of an error.
getPromptLengthDefaulting(bodyBytes) ==
    LET u == Unmarshal(bodyBytes) IN
    [err |-> FALSE, totalLength |-> UserLength(u.payload.Messages)]

\* getPromptLength(bodyBytes) (int, error)
getPromptLength(bodyBytes) ==
    LET u == Unmarshal(bodyBytes) IN
    IF u.err THEN [err |-> TRUE, totalLength |-> 0]
    ELSE [err |-> FALSE, totalLength |-> UserLength(u.payload.Messages)]

\* Mutant of SelectModel: the threshold itself routes expensive.
SelectModelStrict(totalPromptLength) ==
    LET cheap == totalPromptLength < promptLengthThreshold
        costPerChar == IF cheap THEN cheapModelCostPerChar
                       ELSE expensiveModelCostPerChar
    IN [totalPromptLength |-> totalPromptLength,
        targetURL |-> IF cheap THEN cheapModelURL ELSE expensiveModelURL,
        modelName |-> IF cheap THEN "CheapModel" ELSE "ExpensiveModel",
        costPerChar |-> costPerChar,
        estimatedCost |-> totalPromptLength * costPerChar]

\* Step 3 of LLMProxyHandler: model selection and estimated cost.
SelectModel(totalPromptLength) ==
    LET cheap == totalPromptLength <= promptLengthThreshold
        costPerChar == IF cheap THEN cheapModelCostPerChar
                       ELSE expensiveModelCostPerChar
    IN [totalPromptLength |-> totalPromptLength,
        targetURL |-> IF cheap THEN cheapModelURL ELSE expensiveModelURL,
        modelName |-> IF cheap THEN "CheapModel" ELSE "ExpensiveModel",
        costPerChar |-> costPerChar,
        estimatedCost |-> totalPromptLength * costPerChar]

NoRoute ==
    [totalPromptLength |-> 0, targetURL |-> "", modelName |-> "",
     costPerChar |-> 0, estimatedCost |-> 0]

\* Mutant of ResolveAuth: the environment key is preferred to the caller's
\* header.
ResolveAuthEnvFirst(inbound, envKey) ==
    IF envKey # "" THEN "Bearer " \o envKey
    ELSE inbound

\* Step 4: the Authorization header forwarded upstream ("" = none).
ResolveAuth(inbound, envKey) ==
    IF inbound # "" THEN inbound
    ELSE IF envKey # "" THEN "Bearer " \o envKey
    ELSE ""

\* Mutant of NewProxyRequest: the parsed payload is encoded again and sent
\* instead of the buffer.
NewProxyRequestReencoded(m, targetURL, bodyBytes, authHeader, contentType) ==
    [Method |-> m, URL |-> targetURL,
     Body |-> Body(Unmarshal(bodyBytes).payload.Messages, ""),
     Authorization |-> authHeader, ContentType |-> contentType]

\* Step 5: the upstream request.
NewProxyRequest(m, targetURL, bodyBytes, authHeader, contentType) ==
    [Method |-> m, URL |-> targetURL, Body |-> bodyBytes,
     Authorization |-> authHeader, ContentType |-> contentType]

NoProxyReq ==
    [Method |-> "", URL |-> "", Body |-> NoBody,
     Authorization |-> "", ContentType |-> ""]

NoResp == [StatusCode |-> 0, Header |-> {}]

\* ---------------------------------------------------- http.ResponseWriter

\* handlerHeader is the map w.Header() returns; status and header are what
\* WriteHeader committed; body tells how much of the body was written.
NewWriter ==
    [wroteHeader |-> FALSE, status |-> 0, handlerHeader |-> {},
     header |-> {}, body |-> "none"]

\* w.WriteHeader(code): commits the status line with the header map as it is
\* at the call; a second call changes nothing.
WriteHeader(wr, code) ==
    IF wr.wroteHeader THEN wr
    ELSE [wr EXCEPT !.wroteHeader = TRUE, !.status = code,
                    !.header = wr.handlerHeader]

\* w.Header()[name] = values, for every pair of hdr.
SetHeaders(wr, hdr) ==
    [wr EXCEPT !.handlerHeader =
        {p \in wr.handlerHeader : \A q \in hdr : q[1] # p[1]} \cup hdr]

\* w.Write(...): commits status 200 if no status was committed yet.
WriteBody(wr, how) ==
    [WriteHeader(wr, StatusOK) EXCEPT !.body = how]

\* http.Error(w, msg, code)
HttpError(wr, code) ==
    WriteBody(
        WriteHeader(
            SetHeaders(wr, {<<"Content-Type", "text/plain; charset=utf-8">>,
                            <<"X-Content-Type-Options", "nosniff">>}),
            code),
        "error")

\* ----------------------------------------------------- the metrics map

MapGet(m, k) == IF k \in DOMAIN m THEN m[k] ELSE 0
MapSet(m, k, v) == [x \in DOMAIN m \cup {k} |-> IF x = k THEN v ELSE m[x]]

RECURSIVE SumOver(_, _)
SumOver(f, S) ==
    IF S = {} THEN 0
    ELSE LET x == CHOOSE y \in S : TRUE IN f[x] + SumOver(f, S \ {x})

SumUsage(m) == SumOver(m, DOMAIN m)

\* ------------------------------------------------------------------ state

VARIABLES
    metricsMutex,   \* TRUE while locked
    globalMetrics,  \* [TotalRequests, TotalCost, ModelUsage]
    apiKey,         \* os.Getenv(apiKeyEnv)
    pc,             \* position of each LLMProxyHandler goroutine
    method,         \* r.Method as observed
    bodyBytes,      \* the buffer io.ReadAll returned
    bodyReads,      \* how many times r.Body was read
    inHeader,       \* [Authorization, ContentType] of the inbound request
    route,          \* the routing decision and estimated cost
    proxyReq,       \* the upstream request handed to client.Do
    calls,          \* how many times client.Do was called
    resp,           \* the upstream response, NoResp if none
    err,            \* the handler's err variable: "nil" or which call failed
    w,              \* the ResponseWriter of the proxy request
    reg,            \* the value loaded by the read half of x++ / x += c,
                    \* 0 outside a load/store pair
    recorded,       \* how many times the handler stored TotalRequests
    mpc,            \* position of each MetricsHandler goroutine
    snapshot,       \* what Encode read of globalMetrics
    mw              \* the ResponseWriter of the metrics request

globals == <<metricsMutex, globalMetrics, apiKey>>
locals == <<method, bodyBytes, bodyReads, inHeader, route, proxyReq, calls,
            resp, err, w, reg, recorded>>
readerVars == <<mpc, snapshot, mw>>
vars == <<globals, pc, locals, readerVars>>

NoSnapshot == [TotalRequests |-> 0, TotalCost |-> 0, ModelUsage |-> <<>>]

\* main(): globalMetrics with both tier labels seeded at zero; the process
\* environment holds one of keys as LLM_GATEWAY_API_KEY.
InitWith(keys) ==
    /\ metricsMutex = FALSE
    /\ globalMetrics = [TotalRequests |-> 0, TotalCost |-> 0,
                        ModelUsage |-> [k \in {"CheapModel", "ExpensiveModel"} |-> 0]]
    /\ apiKey \in keys
    /\ pc = [r \in Requests |-> "method"]
    /\ method = [r \in Requests |-> ""]
    /\ bodyBytes = [r \in Requests |-> NoBody]
    /\ bodyReads = [r \in Requests |-> 0]
    /\ inHeader = [r \in Requests |-> [Authorization |-> "", ContentType |-> ""]]
    /\ route = [r \in Requests |-> NoRoute]
    /\ proxyReq = [r \in Requests |-> NoProxyReq]
    /\ calls = [r \in Requests |-> 0]
    /\ resp = [r \in Requests |-> NoResp]
    /\ err = [r \in Requests |-> "nil"]
    /\ w = [r \in Requests |-> NewWriter]
    /\ reg = [r \in Requests |-> 0]
    /\ recorded = [r \in Requests |-> 0]
    /\ mpc = [m \in Readers |-> "lock"]
    /\ snapshot = [m \in Readers |-> NoSnapshot]
    /\ mw = [m \in Readers |-> NewWriter]


\* ------------------------------------------------------------------ inputs

\* What the callers and the backends may do: methods, bodies, inbound
\* headers, upstream responses and how the stream-back ends.  Inputs is the universe of the concurrent
\* specification, WideInputs that of the single-request specification.
Responses ==
    {[StatusCode |-> 200, Header |-> {<<"Content-Type", "application/json">>}],
     [StatusCode |-> 500, Header |-> {<<"Content-Type", "text/html">>,
                                      <<"Retry-After", "1">>}]}

Inputs ==
    [methods |-> {"POST", "GET"},
     bodies |-> {BadBody,
                 Body(<<Msg("user", 150)>>, ""),
                 Body(<<Msg("system", 200), Msg("user", 151)>>, "model")},
     headers |-> {[Authorization |-> "", ContentType |-> "application/json"]},
     responses |-> Responses,
     copies |-> {"all"}]

Roles == {"user", "system", "assistant"}
Lengths == {0, 2, 75, 149, 150, 151, 200}
Messages == {Msg(role, n) : role \in Roles, n \in Lengths}
MessageLists ==
    {<<>>} \cup {<<a>> : a \in Messages} \cup {<<a, b>> : a, b \in Messages}

WideInputs ==
    [methods |-> {"POST", "GET", "PUT"},
     bodies |-> {BadBody} \cup {Body(ms, "") : ms \in MessageLists}
                \cup {Body(<<Msg("user", 2)>>, "model")},
     headers |-> {[Authorization |-> a, ContentType |-> c] :
                    a \in {"", "Bearer caller"}, c \in {"", "application/json"}},
     responses |-> Responses,
     copies |-> {"all", "partial"}]

\* ------------------------------------------------------- LLMProxyHandler

\* Mutant of CheckMethod: the return after http.Error is missing.
CheckMethodNoReturn(r, U) ==
    /\ pc[r] = "method"
    /\ \E m \in U.methods :
        /\ method' = [method EXCEPT ![r] = m]
        /\ w' = [w EXCEPT ![r] =
                   IF m # "POST" THEN HttpError(w[r], StatusMethodNotAllowed)
                   ELSE w[r]]
        /\ pc' = [pc EXCEPT ![r] = "readBody"]
    /\ UNCHANGED <<globals, bodyBytes, bodyReads, inHeader, route, proxyReq,
                   calls, resp, err, reg, recorded, readerVars>>

\* 1. if r.Method != http.MethodPost { http.Error(405); return }
CheckMethod(r, U) ==
    /\ pc[r] = "method"
    /\ \E m \in U.methods :
        /\ method' = [method EXCEPT ![r] = m]
        /\ IF m # "POST"
           THEN /\ w' = [w EXCEPT ![r] = HttpError(w[r], StatusMethodNotAllowed)]
                /\ pc' = [pc EXCEPT ![r] = "done"]
           ELSE /\ w' = w
                /\ pc' = [pc EXCEPT ![r] = "readBody"]
    /\ UNCHANGED <<globals, bodyBytes, bodyReads, inHeader, route, proxyReq,
                   calls, resp, err, reg, recorded, readerVars>>

\* bodyBytes, err := io.ReadAll(r.Body); on error 500 and return.  r.Body is
\* then replaced by a reader over bodyBytes, which nothing reads.
ReadBody(r, U) ==
    /\ pc[r] = "readBody"
    /\ bodyReads' = [bodyReads EXCEPT ![r] = @ + 1]
    /\ \/ /\ err' = [err EXCEPT ![r] = "read"]
          /\ w' = [w EXCEPT ![r] = HttpError(w[r], StatusInternalServerError)]
          /\ pc' = [pc EXCEPT ![r] = "done"]
          /\ UNCHANGED bodyBytes
       \/ /\ \E b \in U.bodies : bodyBytes' = [bodyBytes EXCEPT ![r] = b]
          /\ pc' = [pc EXCEPT ![r] = "analyze"]
          /\ UNCHANGED <<err, w>>
    /\ UNCHANGED <<globals, method, inHeader, route, proxyReq, calls, resp,
                   reg, recorded, readerVars>>

\* http.NewRequest fails only on a method that is no token or a URL that
\* does not parse; r.Method is "POST" here and both URLs are constants.
NewRequestFails(m, targetURL) ==
    \/ m = ""
    \/ targetURL \notin {cheapModelURL, expensiveModelURL}

\* 2.-5. getPromptLength (400 on error), model selection, estimated cost,
\* header resolution and construction of the upstream request.
Analyze(r, U) ==
    /\ pc[r] = "analyze"
    /\ LET a == getPromptLength(bodyBytes[r]) IN
       IF a.err
       THEN /\ err' = [err EXCEPT ![r] = "parse"]
            /\ w' = [w EXCEPT ![r] = HttpError(w[r], StatusBadRequest)]
            /\ pc' = [pc EXCEPT ![r] = "done"]
            /\ UNCHANGED <<inHeader, route, proxyReq>>
       ELSE \E h \in U.headers :
            LET d == SelectModel(a.totalLength)
                authHeader == ResolveAuth(h.Authorization, apiKey)
            IN /\ inHeader' = [inHeader EXCEPT ![r] = h]
               /\ route' = [route EXCEPT ![r] = d]
               /\ IF NewRequestFails(method[r], d.targetURL)
                  THEN /\ err' = [err EXCEPT ![r] = "newRequest"]
                       /\ w' = [w EXCEPT ![r] =
                                 HttpError(w[r], StatusInternalServerError)]
                       /\ pc' = [pc EXCEPT ![r] = "done"]
                       /\ UNCHANGED proxyReq
                  ELSE /\ proxyReq' = [proxyReq EXCEPT ![r] =
                            NewProxyRequest(method[r], d.targetURL, bodyBytes[r],
                                            authHeader, h.ContentType)]
                       /\ pc' = [pc EXCEPT ![r] = "do"]
                       /\ UNCHANGED <<err, w>>
    /\ UNCHANGED <<globals, method, bodyBytes, bodyReads, calls, resp, reg,
                   recorded, readerVars>>

\* Mutant of Do: after a first failed call the request is sent again, to the
\* other endpoint.
DoFallback(r, U) ==
    /\ pc[r] = "do"
    /\ calls' = [calls EXCEPT ![r] = @ + 1]
    /\ \/ /\ calls[r] = 0
          /\ proxyReq' = [proxyReq EXCEPT ![r].URL =
                            IF @ = cheapModelURL THEN expensiveModelURL
                            ELSE cheapModelURL]
          /\ UNCHANGED <<err, w, pc, resp>>
       \/ /\ calls[r] > 0
          /\ err' = [err EXCEPT ![r] = "transport"]
          /\ w' = [w EXCEPT ![r] = HttpError(w[r], StatusBadGateway)]
          /\ pc' = [pc EXCEPT ![r] = "done"]
          /\ UNCHANGED <<resp, proxyReq>>
       \/ /\ \E rs \in U.responses :
              /\ resp' = [resp EXCEPT ![r] = rs]
              /\ w' = [w EXCEPT ![r] =
                         SetHeaders(WriteHeader(w[r], rs.StatusCode), rs.Header)]
          /\ pc' = [pc EXCEPT ![r] = "copy"]
          /\ UNCHANGED <<err, proxyReq>>
    /\ UNCHANGED <<globals, method, bodyBytes, bodyReads, inHeader, route,
                   reg, recorded, readerVars>>

\* Mutant of Do: a failed call answers 502 and still goes on to the metrics
\* update.
DoRecordOnFailure(r, U) ==
    /\ pc[r] = "do"
    /\ calls' = [calls EXCEPT ![r] = @ + 1]
    /\ \/ /\ err' = [err EXCEPT ![r] = "transport"]
          /\ w' = [w EXCEPT ![r] = HttpError(w[r], StatusBadGateway)]
          /\ pc' = [pc EXCEPT ![r] = "lock"]
          /\ UNCHANGED resp
       \/ /\ \E rs \in U.responses :
              /\ resp' = [resp EXCEPT ![r] = rs]
              /\ w' = [w EXCEPT ![r] =
                         SetHeaders(WriteHeader(w[r], rs.StatusCode), rs.Header)]
          /\ pc' = [pc EXCEPT ![r] = "copy"]
          /\ UNCHANGED err
    /\ UNCHANGED <<globals, method, bodyBytes, bodyReads, inHeader, route,
                   proxyReq, reg, recorded, readerVars>>

\* 6. resp, err := client.Do(proxyReq); on error 502 and return.
\* 7. Otherwise w.WriteHeader(resp.StatusCode), and then
\* for name, values := range resp.Header { w.Header()[name] = values },
\* in this order, up to the call of io.Copy.
Do(r, U) ==
    /\ pc[r] = "do"
    /\ calls' = [calls EXCEPT ![r] = @ + 1]
    /\ \/ /\ err' = [err EXCEPT ![r] = "transport"]
          /\ w' = [w EXCEPT ![r] = HttpError(w[r], StatusBadGateway)]
          /\ pc' = [pc EXCEPT ![r] = "done"]
          /\ UNCHANGED resp
       \/ /\ \E rs \in U.responses :
              /\ resp' = [resp EXCEPT ![r] = rs]
              /\ w' = [w EXCEPT ![r] =
                         SetHeaders(WriteHeader(w[r], rs.StatusCode), rs.Header)]
          /\ pc' = [pc EXCEPT ![r] = "copy"]
          /\ UNCHANGED err
    /\ UNCHANGED <<globals, method, bodyBytes, bodyReads, inHeader, route,
                   proxyReq, reg, recorded, readerVars>>

\* Mutant of CopyBody: a failed copy returns without the metrics update.
CopyBodyAbort(r, U) ==
    /\ pc[r] = "copy"
    /\ \E how \in U.copies :
        /\ w' = [w EXCEPT ![r] = WriteBody(w[r], how)]
        /\ err' = [err EXCEPT ![r] = IF how = "all" THEN "nil" ELSE "copy"]
        /\ pc' = [pc EXCEPT ![r] = IF how = "all" THEN "lock" ELSE "done"]
    /\ UNCHANGED <<globals, method, bodyBytes, bodyReads, inHeader, route,
                   proxyReq, calls, resp, reg, recorded, readerVars>>

\* Mutant of CopyBody: an error response of the backend is not counted.
CopyBodySkipErrors(r, U) ==
    /\ pc[r] = "copy"
    /\ \E how \in U.copies :
        /\ w' = [w EXCEPT ![r] = WriteBody(w[r], how)]
        /\ err' = [err EXCEPT ![r] = IF how = "all" THEN "nil" ELSE "copy"]
    /\ pc' = [pc EXCEPT ![r] =
                IF resp[r].StatusCode >= 500 THEN "done" ELSE "lock"]
    /\ UNCHANGED <<globals, method, bodyBytes, bodyReads, inHeader, route,
                   proxyReq, calls, resp, reg, recorded, readerVars>>

\* responseSize, err := io.Copy(w, resp.Body): the whole body is written, or
\* the copy fails part-way; the error is only logged.
CopyBody(r, U) ==
    /\ pc[r] = "copy"
    /\ \E how \in U.copies :
        /\ w' = [w EXCEPT ![r] = WriteBody(w[r], how)]
        /\ err' = [err EXCEPT ![r] = IF how = "all" THEN "nil" ELSE "copy"]
    /\ pc' = [pc EXCEPT ![r] = "lock"]
    /\ UNCHANGED <<globals, method, bodyBytes, bodyReads, inHeader, route,
                   proxyReq, calls, resp, reg, recorded, readerVars>>

\* Mutant of Lock: the handler enters without waiting for the mutex.
LockNoExclusion(r) ==
    /\ pc[r] = "lock"
    /\ metricsMutex' = TRUE
    /\ pc' = [pc EXCEPT ![r] = "loadTotal"]
    /\ UNCHANGED <<globalMetrics, apiKey, locals, readerVars>>

\* metricsMutex.Lock()
Lock(r) ==
    /\ pc[r] = "lock"
    /\ ~metricsMutex
    /\ metricsMutex' = TRUE
    /\ pc' = [pc EXCEPT ![r] = "loadTotal"]
    /\ UNCHANGED <<globalMetrics, apiKey, locals, readerVars>>

\* globalMetrics.TotalRequests++ (load, then store)
LoadTotal(r) ==
    /\ pc[r] = "loadTotal"
    /\ reg' = [reg EXCEPT ![r] = globalMetrics.TotalRequests]
    /\ pc' = [pc EXCEPT ![r] = "storeTotal"]
    /\ UNCHANGED <<globals, method, bodyBytes, bodyReads, inHeader, route,
                   proxyReq, calls, resp, err, w, recorded, readerVars>>

\* Mutant of StoreTotal: the mutex is released right after TotalRequests++,
\* before the cost and the per-tier count are updated.
StoreTotalThenUnlock(r) ==
    /\ pc[r] = "storeTotal"
    /\ globalMetrics' = [globalMetrics EXCEPT !.TotalRequests = reg[r] + 1]
    /\ recorded' = [recorded EXCEPT ![r] = @ + 1]
    /\ reg' = [reg EXCEPT ![r] = 0]
    /\ metricsMutex' = FALSE
    /\ pc' = [pc EXCEPT ![r] = "loadCost"]
    /\ UNCHANGED <<apiKey, method, bodyBytes, bodyReads, inHeader,
                   route, proxyReq, calls, resp, err, w, readerVars>>

StoreTotal(r) ==
    /\ pc[r] = "storeTotal"
    /\ globalMetrics' = [globalMetrics EXCEPT !.TotalRequests = reg[r] + 1]
    /\ recorded' = [recorded EXCEPT ![r] = @ + 1]
    /\ reg' = [reg EXCEPT ![r] = 0]
    /\ pc' = [pc EXCEPT ![r] = "loadCost"]
    /\ UNCHANGED <<metricsMutex, apiKey, method, bodyBytes, bodyReads, inHeader,
                   route, proxyReq, calls, resp, err, w, readerVars>>

\* globalMetrics.TotalCost += estimatedCost
LoadCost(r) ==
    /\ pc[r] = "loadCost"
    /\ reg' = [reg EXCEPT ![r] = globalMetrics.TotalCost]
    /\ pc' = [pc EXCEPT ![r] = "storeCost"]
    /\ UNCHANGED <<globals, method, bodyBytes, bodyReads, inHeader, route,
                   proxyReq, calls, resp, err, w, recorded, readerVars>>

\* Mutant of StoreCost: the cost is computed again at the update, with a
\* routing that sends the threshold itself to the expensive tier.
StoreCostRecomputed(r) ==
    /\ pc[r] = "storeCost"
    /\ globalMetrics' = [globalMetrics EXCEPT !.TotalCost =
          reg[r] + SelectModelStrict(route[r].totalPromptLength).estimatedCost]
    /\ reg' = [reg EXCEPT ![r] = 0]
    /\ pc' = [pc EXCEPT ![r] = "loadUsage"]
    /\ UNCHANGED <<metricsMutex, apiKey, method, bodyBytes, bodyReads, inHeader,
                   route, proxyReq, calls, resp, err, w, recorded, readerVars>>

\* Mutant of StoreCost: the estimated cost is assigned, not added.
StoreCostOverwrite(r) ==
    /\ pc[r] = "storeCost"
    /\ globalMetrics' = [globalMetrics EXCEPT
                            !.TotalCost = route[r].estimatedCost]
    /\ reg' = [reg EXCEPT ![r] = 0]
    /\ pc' = [pc EXCEPT ![r] = "loadUsage"]
    /\ UNCHANGED <<metricsMutex, apiKey, method, bodyBytes, bodyReads, inHeader,
                   route, proxyReq, calls, resp, err, w, recorded, readerVars>>

StoreCost(r) ==
    /\ pc[r] = "storeCost"
    /\ globalMetrics' = [globalMetrics EXCEPT
                            !.TotalCost = reg[r] + route[r].estimatedCost]
    /\ reg' = [reg EXCEPT ![r] = 0]
    /\ pc' = [pc EXCEPT ![r] = "loadUsage"]
    /\ UNCHANGED <<metricsMutex, apiKey, method, bodyBytes, bodyReads, inHeader,
                   route, proxyReq, calls, resp, err, w, recorded, readerVars>>

\* globalMetrics.ModelUsage[modelName]++
LoadUsage(r) ==
    /\ pc[r] = "loadUsage"
    /\ reg' = [reg EXCEPT ![r] =
                 MapGet(globalMetrics.ModelUsage, route[r].modelName)]
    /\ pc' = [pc EXCEPT ![r] = "storeUsage"]
    /\ UNCHANGED <<globals, method, bodyBytes, bodyReads, inHeader, route,
                   proxyReq, calls, resp, err, w, recorded, readerVars>>

\* Mutant of StoreUsage: the count goes to a hard-coded tier label.
StoreUsageFixedTier(r) ==
    /\ pc[r] = "storeUsage"
    /\ globalMetrics' = [globalMetrics EXCEPT !.ModelUsage =
                            MapSet(@, "CheapModel", MapGet(@, "CheapModel") + 1)]
    /\ reg' = [reg EXCEPT ![r] = 0]
    /\ pc' = [pc EXCEPT ![r] = "unlock"]
    /\ UNCHANGED <<metricsMutex, apiKey, method, bodyBytes, bodyReads, inHeader,
                   route, proxyReq, calls, resp, err, w, recorded, readerVars>>

StoreUsage(r) ==
    /\ pc[r] = "storeUsage"
    /\ globalMetrics' = [globalMetrics EXCEPT !.ModelUsage =
                            MapSet(@, route[r].modelName, reg[r] + 1)]
    /\ reg' = [reg EXCEPT ![r] = 0]
    /\ pc' = [pc EXCEPT ![r] = "unlock"]
    /\ UNCHANGED <<metricsMutex, apiKey, method, bodyBytes, bodyReads, inHeader,
                   route, proxyReq, calls, resp, err, w, recorded, readerVars>>

\* metricsMutex.Unlock(), the final log line and the return
Unlock(r) ==
    /\ pc[r] = "unlock"
    /\ metricsMutex' = FALSE
    /\ pc' = [pc EXCEPT ![r] = "done"]
    /\ UNCHANGED <<globalMetrics, apiKey, locals, readerVars>>

LLMProxyHandler(r, U) ==
    \/ CheckMethod(r, U)
    \/ ReadBody(r, U)
    \/ Analyze(r, U)
    \/ Do(r, U)
    \/ CopyBody(r, U)
    \/ Lock(r)
    \/ LoadTotal(r)
    \/ StoreTotal(r)
    \/ LoadCost(r)
    \/ StoreCost(r)
    \/ LoadUsage(r)
    \/ StoreUsage(r)
    \/ Unlock(r)


\* -------------------------------------------------------- MetricsHandler

\* Mutant of MetricsLock: the reader enters without waiting for the mutex.
MetricsLockNoExclusion(m) ==
    /\ mpc[m] = "lock"
    /\ metricsMutex' = TRUE
    /\ mpc' = [mpc EXCEPT ![m] = "readTotal"]
    /\ UNCHANGED <<globalMetrics, apiKey, pc, locals, snapshot, mw>>

\* metricsMutex.Lock(); the Unlock is deferred to the return.
MetricsLock(m) ==
    /\ mpc[m] = "lock"
    /\ ~metricsMutex
    /\ metricsMutex' = TRUE
    /\ mpc' = [mpc EXCEPT ![m] = "readTotal"]
    /\ UNCHANGED <<globalMetrics, apiKey, pc, locals, snapshot, mw>>

\* w.Header().Set("Content-Type", ...), then Encode(globalMetrics) reads the
\* struct's fields in their order of declaration.
ReadTotal(m) ==
    /\ mpc[m] = "readTotal"
    /\ mw' = [mw EXCEPT ![m] =
                SetHeaders(mw[m], {<<"Content-Type", "application/json">>})]
    /\ snapshot' = [snapshot EXCEPT
                      ![m].TotalRequests = globalMetrics.TotalRequests]
    /\ mpc' = [mpc EXCEPT ![m] = "readCost"]
    /\ UNCHANGED <<globals, pc, locals>>

ReadCost(m) ==
    /\ mpc[m] = "readCost"
    /\ snapshot' = [snapshot EXCEPT ![m].TotalCost = globalMetrics.TotalCost]
    /\ mpc' = [mpc EXCEPT ![m] = "readUsage"]
    /\ UNCHANGED <<globals, pc, locals, mw>>

ReadUsage(m) ==
    /\ mpc[m] = "readUsage"
    /\ snapshot' = [snapshot EXCEPT ![m].ModelUsage = globalMetrics.ModelUsage]
    /\ mpc' = [mpc EXCEPT ![m] = "write"]
    /\ UNCHANGED <<globals, pc, locals, mw>>

\* Encode writes the encoded snapshot to w; if the write fails,
\* http.Error(w, ..., 500) follows, after the status was committed.
WriteSnapshot(m, U) ==
    /\ mpc[m] = "write"
    /\ \E how \in U.copies :
        mw' = [mw EXCEPT ![m] =
                 IF how = "all" THEN WriteBody(mw[m], how)
                 ELSE HttpError(WriteBody(mw[m], how),
                                StatusInternalServerError)]
    /\ mpc' = [mpc EXCEPT ![m] = "unlock"]
    /\ UNCHANGED <<globals, pc, locals, snapshot>>

\* Mutant of MetricsUnlock: the Unlock is not deferred but follows the
\* successful write, so the return after http.Error leaves the mutex locked.
MetricsUnlockOnSuccessOnly(m) ==
    /\ mpc[m] = "unlock"
    /\ metricsMutex' = (mw[m].body # "all")
    /\ snapshot' = [snapshot EXCEPT ![m] = NoSnapshot]
    /\ mpc' = [mpc EXCEPT ![m] = "done"]
    /\ UNCHANGED <<globalMetrics, apiKey, pc, locals, mw>>

\* the return: the deferred metricsMutex.Unlock() runs and the encoder's
\* buffer goes out of scope.
MetricsUnlock(m) ==
    /\ mpc[m] = "unlock"
    /\ metricsMutex' = FALSE
    /\ snapshot' = [snapshot EXCEPT ![m] = NoSnapshot]
    /\ mpc' = [mpc EXCEPT ![m] = "done"]
    /\ UNCHANGED <<globalMetrics, apiKey, pc, locals, mw>>

MetricsHandler(m, U) ==
    \/ MetricsLock(m)
    \/ ReadTotal(m)
    \/ ReadCost(m)
    \/ ReadUsage(m)
    \/ WriteSnapshot(m, U)
    \/ MetricsUnlock(m)

\* ---------------------------------------------------------- specification

Init == InitWith({"envkey"})

Next ==
    \/ \E r \in Requests : LLMProxyHandler(r, Inputs)
    \/ \E m \in Readers : MetricsHandler(m, Inputs)

\* Concurrent requests and metrics readers over Inputs.
Spec == Init /\ [][Next]_vars

InitWide == InitWith({"", "envkey"})

NextWide == LLMProxyHandler(1, WideInputs)

\* One request over WideInputs, alone.
SpecWide == InitWide /\ [][NextWide]_vars


\* What callers and backends may do in the fair specification: as Inputs,
\* with one body that parses, one upstream response, and with writes to a
\* caller that may fail.
LiveInputs ==
    [methods |-> {"POST", "GET"},
     bodies |-> {BadBody, Body(<<Msg("user", 151)>>, "")},
     headers |-> {[Authorization |-> "", ContentType |-> "application/json"]},
     responses |-> {rs \in Responses : rs.StatusCode = StatusOK},
     copies |-> {"all", "partial"}]

NextFair ==
    \/ \E r \in Requests : LLMProxyHandler(r, LiveInputs)
    \/ \E m \in Readers : MetricsHandler(m, LiveInputs)

\* Concurrent requests and readers under fair scheduling: net/http runs
\* every handler in a goroutine of its own, the Go scheduler lets every
\* runnable goroutine run, every blocking read, call (30 s timeout) or write
\* returns or fails, and sync.Mutex hands the mutex to a waiting goroutine.
SpecFair ==
    /\ Init
    /\ [][NextFair]_vars
    /\ \A r \in Requests : WF_vars(LLMProxyHandler(r, LiveInputs))
    /\ \A m \in Readers : WF_vars(MetricsHandler(m, LiveInputs))


\* ----------------------------------------------------------------- claims

AllDone == \A r \in Requests : pc[r] = "done"

\* The handler is between its Lock and its Unlock.
InUpdate(r) ==
    pc[r] \in {"loadTotal", "storeTotal", "loadCost", "storeCost",
               "loadUsage", "storeUsage", "unlock"}

\* io.ReadAll returned a buffer to the handler.
BodyRead(r) == bodyReads[r] > 0 /\ err[r] # "read"

\* The requests whose handler has stored TotalRequests.
Recorded == {r \in Requests : recorded[r] > 0}

RecordedCost == SumOver([r \in Requests |-> route[r].estimatedCost], Recorded)

\* C1: a request whose body does not parse ends with status 400 without an
\* upstream request or call and without a metrics update, and no step of
\* its handler changes globalMetrics.
C1_MalformedRejected ==
    /\ [](\A r \in Requests :
            (BodyRead(r) /\ ~bodyBytes[r].valid) =>
                /\ pc[r] \in {"analyze", "done"}
                /\ pc[r] = "done" =>
                      w[r].wroteHeader /\ w[r].status = 400
                /\ proxyReq[r] = NoProxyReq
                /\ calls[r] = 0
                /\ recorded[r] = 0)
    /\ [][\A r \in Requests :
            (BodyRead(r) /\ ~bodyBytes[r].valid /\ pc'[r] # pc[r]) =>
                globalMetrics' = globalMetrics]_vars

C1_Witness ==
    \E r \in Requests :
        /\ BodyRead(r) /\ ~bodyBytes[r].valid
        /\ pc[r] = "done" /\ w[r].status = 400
        /\ globalMetrics.TotalRequests > 0

\* C2: a dispatched request goes to the cheap endpoint under the label
\* "CheapModel" iff its prompt length is at most 150, and to the expensive
\* endpoint under the label "ExpensiveModel" iff it is more than 150.
C2_RoutingThreshold ==
    \A r \in Requests :
        proxyReq[r] # NoProxyReq =>
            LET L == route[r].totalPromptLength IN
            /\ L <= 150 <=> (/\ proxyReq[r].URL = cheapModelURL
                             /\ route[r].modelName = "CheapModel")
            /\ L > 150 <=> (/\ proxyReq[r].URL = expensiveModelURL
                            /\ route[r].modelName = "ExpensiveModel")

C2_Witness ==
    \E r \in Requests :
        /\ calls[r] = 1
        /\ route[r].totalPromptLength = 150
        /\ proxyReq[r].URL = cheapModelURL


\* C3: no lost updates: once every handler has returned, TotalRequests and
\* the sum of the ModelUsage counts both equal the number of handlers that
\* performed the metrics update.
C3_NoLostUpdates ==
    AllDone =>
        /\ globalMetrics.TotalRequests = Cardinality(Recorded)
        /\ SumUsage(globalMetrics.ModelUsage) = Cardinality(Recorded)

C3_Witness ==
    /\ AllDone
    /\ Recorded = Requests
    /\ globalMetrics.ModelUsage["CheapModel"] = NumRequests

\* C4: what MetricsHandler encodes is one state of the metrics between
\* updates: its totalRequests equals the sum of its modelUsageCount values,
\* and counts and cost are those of exactly the updates begun so far.
C4_SnapshotConsistent ==
    \A m \in Readers :
        mpc[m] \in {"write", "unlock"} =>
            /\ snapshot[m].TotalRequests = SumUsage(snapshot[m].ModelUsage)
            /\ snapshot[m].TotalRequests = Cardinality(Recorded)
            /\ snapshot[m].TotalCost = RecordedCost

C4_Witness ==
    \E m \in Readers, r1, r2 \in Requests :
        /\ mpc[m] = "write"
        /\ snapshot[m].TotalRequests = 1
        /\ pc[r1] = "done" /\ recorded[r1] = 1
        /\ pc[r2] = "lock"

\* C5: a request whose upstream call fails at the transport level has
\* returned with status 502 and no metrics update, and neither the metrics
\* nor any snapshot count more requests than those whose call did not fail.
C5_TransportFailureNotRecorded ==
    LET failed == {r \in Requests : err[r] = "transport"} IN
    /\ \A r \in failed :
        /\ pc[r] = "done"
        /\ w[r].wroteHeader /\ w[r].status = 502
        /\ resp[r] = NoResp
        /\ recorded[r] = 0
    /\ globalMetrics.TotalRequests <= NumRequests - Cardinality(failed)
    /\ \A m \in Readers :
        snapshot[m].TotalRequests <= NumRequests - Cardinality(failed)

C5_Witness ==
    \E r \in Requests, m \in Readers :
        /\ err[r] = "transport" /\ calls[r] = 1 /\ w[r].status = 502
        /\ mpc[m] = "write"
        /\ snapshot[m].TotalRequests = NumRequests - 1

\* C6: a handler updates the metrics at most once, exactly once when it has
\* returned after an upstream response of any status, and never without an
\* upstream response; between updates the metrics are the totals of those
\* updates (count, per-tier count, estimated cost).
C6_ExactlyOneUpdate ==
    /\ \A r \in Requests :
        /\ recorded[r] <= 1
        /\ resp[r] = NoResp => recorded[r] = 0
        /\ (pc[r] = "done" /\ resp[r] # NoResp) => recorded[r] = 1
    /\ (\A r \in Requests : ~InUpdate(r)) =>
        /\ globalMetrics.TotalRequests = Cardinality(Recorded)
        /\ \A t \in {"CheapModel", "ExpensiveModel"} :
            MapGet(globalMetrics.ModelUsage, t) =
                Cardinality({r \in Recorded : route[r].modelName = t})
        /\ globalMetrics.TotalCost = RecordedCost

C6_Witness ==
    \E r \in Requests :
        /\ pc[r] = "done"
        /\ resp[r].StatusCode = 500
        /\ recorded[r] = 1
        /\ globalMetrics.TotalRequests = NumRequests

\* C7: once the status line of a proxied response is committed, and so
\* before any body byte, the committed response carries the upstream status
\* code and every upstream response header.
C7_HeadersBeforeStatus ==
    \A r \in Requests :
        (resp[r] # NoResp /\ w[r].wroteHeader) =>
            /\ w[r].status = resp[r].StatusCode
            /\ resp[r].Header \subseteq w[r].header

\* C8: a handler whose stream-back copy failed keeps the upstream status it
\* committed and returns only after its single metrics update.
C8_PartialCopyStillRecorded ==
    \A r \in Requests :
        err[r] = "copy" =>
            /\ w[r].status = resp[r].StatusCode
            /\ w[r].body = "partial"
            /\ recorded[r] <= 1
            /\ pc[r] = "done" =>
                /\ recorded[r] = 1
                /\ globalMetrics.TotalRequests = 1
                /\ globalMetrics.ModelUsage[route[r].modelName] = 1
                /\ globalMetrics.TotalCost = route[r].estimatedCost

C8_Witness ==
    \E r \in Requests :
        /\ err[r] = "copy"
        /\ pc[r] = "done"
        /\ w[r].status = 200
        /\ globalMetrics.TotalRequests = 1

\* C9: a request with a method other than POST has returned with status 405
\* without a body read, a routing decision, an upstream request or call, or
\* a metrics update.
C9_MethodNotAllowed ==
    \A r \in Requests :
        method[r] \notin {"", "POST"} =>
            /\ pc[r] = "done"
            /\ w[r].wroteHeader /\ w[r].status = 405
            /\ bodyReads[r] = 0 /\ bodyBytes[r] = NoBody
            /\ route[r] = NoRoute
            /\ proxyReq[r] = NoProxyReq /\ calls[r] = 0
            /\ recorded[r] = 0 /\ ~InUpdate(r)

C9_Witness ==
    \E r \in Requests :
        method[r] = "PUT" /\ pc[r] = "done" /\ w[r].status = 405

\* C10: the body of the upstream request is the buffer read from the caller,
\* which was read once and is the one the analyzer measured.
C10_BodyForwardedUnchanged ==
    \A r \in Requests :
        /\ bodyReads[r] <= 1
        /\ calls[r] > 0 =>
            /\ bodyReads[r] = 1
            /\ proxyReq[r].Body = bodyBytes[r]
            /\ getPromptLength(proxyReq[r].Body).totalLength =
                   route[r].totalPromptLength

C10_Witness ==
    \E r \in Requests :
        /\ calls[r] = 1
        /\ bodyBytes[r].extra = "model"
        /\ proxyReq[r].Body = bodyBytes[r]

\* C11: the upstream request carries the caller's Authorization value verbatim
\* when the caller sent one; otherwise "Bearer " followed by the environment
\* key when that key is set; otherwise no Authorization at all.
C11_AuthResolution ==
    \A r \in Requests :
        proxyReq[r] # NoProxyReq =>
            LET inbound == inHeader[r].Authorization
                sent == proxyReq[r].Authorization
            IN /\ inbound # "" => sent = inbound
               /\ inbound = "" /\ apiKey # "" => sent = "Bearer " \o apiKey
               /\ inbound = "" /\ apiKey = "" => sent = ""

\* a caller's header wins over a configured environment key, upstream called
C11_Witness ==
    \E r \in Requests :
        /\ calls[r] = 1
        /\ apiKey = "envkey"
        /\ inHeader[r].Authorization = "Bearer caller"
        /\ proxyReq[r].Authorization = "Bearer caller"

\* The handler has added its estimated cost to TotalCost.
CostStored(r) == recorded[r] > 0 /\ pc[r] \notin {"loadCost", "storeCost"}

\* The characters of the user messages of the body the caller sent.
UserChars(r) ==
    LET msgs == bodyBytes[r].Messages
    IN SumOver([i \in DOMAIN msgs |->
                  IF msgs[i].Role = "user" THEN msgs[i].Content ELSE 0],
               DOMAIN msgs)

\* The rate of the endpoint the request was dispatched to, in 1e-7 USD.
RateOfEndpoint(r) == IF proxyReq[r].URL = cheapModelURL THEN 1 ELSE 15

\* C12: the cost a request contributes is its prompt length times the rate of
\* the tier it was routed to (2 characters cost 2 units, 200 characters 3000),
\* and in every interleaving TotalCost is the sum of these products over the
\* requests that have added their cost.
C12_CostIsLengthTimesRate ==
    /\ SelectModel(2).estimatedCost = 2
    /\ SelectModel(200).estimatedCost = 3000
    /\ \A r \in Requests :
        proxyReq[r] # NoProxyReq =>
            route[r].estimatedCost = UserChars(r) * RateOfEndpoint(r)
    /\ globalMetrics.TotalCost =
         SumOver([r \in Requests |-> UserChars(r) * RateOfEndpoint(r)],
                 {r \in Requests : CostStored(r)})

\* a cheap and an expensive request have both added their cost
C12_Witness ==
    /\ \E r \in Requests : CostStored(r) /\ proxyReq[r].URL = cheapModelURL
    /\ \E r \in Requests : CostStored(r) /\ proxyReq[r].URL = expensiveModelURL
    /\ globalMetrics.TotalCost = 150 * 1 + 151 * 15

\* The calls that got an upstream response.
Answered == {r \in Requests : resp[r] # NoResp}

\* C13: when every call has returned (the calls made one after another
\* included), what a GET /metrics has read reports as totalRequests the
\* number of calls that got an upstream response and per tier the number of
\* those calls routed to it.
C13_SequentialCallsCounted ==
    \A m \in Readers :
        (AllDone /\ mpc[m] \in {"write", "unlock"}) =>
            /\ snapshot[m].TotalRequests = Cardinality(Answered)
            /\ MapGet(snapshot[m].ModelUsage, "CheapModel") =
                 Cardinality({r \in Answered : proxyReq[r].URL = cheapModelURL})
            /\ MapGet(snapshot[m].ModelUsage, "ExpensiveModel") =
                 Cardinality({r \in Answered :
                                proxyReq[r].URL = expensiveModelURL})

\* after a cheap and an expensive call, /metrics reads 2, 1 and 1
C13_Witness ==
    \E m \in Readers :
        /\ AllDone
        /\ mpc[m] = "write"
        /\ snapshot[m].TotalRequests = 2
        /\ snapshot[m].ModelUsage["CheapModel"] = 1
        /\ snapshot[m].ModelUsage["ExpensiveModel"] = 1

\* The characters of all messages of the body, whatever their role.
AllChars(r) ==
    LET msgs == bodyBytes[r].Messages
    IN SumOver([i \in DOMAIN msgs |-> msgs[i].Content], DOMAIN msgs)

\* C14: the prompt length is the sum of the content lengths of exactly the
\* messages whose role is "user"; a message of another role adds nothing and
\* is no error, so a body whose user content is at most the threshold goes to
\* the cheap endpoint however long its other messages are.
C14_OnlyUserMessagesCount ==
    \A r \in Requests :
        /\ proxyReq[r] # NoProxyReq =>
            /\ route[r].totalPromptLength = UserChars(r)
            /\ UserChars(r) <= promptLengthThreshold =>
                 proxyReq[r].URL = cheapModelURL
        /\ (bodyBytes[r].valid /\ pc[r] \notin {"method", "readBody", "analyze"}
              /\ method[r] = "POST" /\ err[r] # "read") =>
            /\ proxyReq[r] # NoProxyReq
            /\ ~(w[r].wroteHeader /\ w[r].status = StatusBadRequest)

\* system and assistant content above the threshold, user content below it:
\* dispatched to the cheap endpoint
C14_Witness ==
    \E r \in Requests :
        /\ calls[r] = 1
        /\ AllChars(r) > promptLengthThreshold
        /\ UserChars(r) = 2
        /\ \E i \in DOMAIN bodyBytes[r].Messages :
             bodyBytes[r].Messages[i].Role = "assistant"
        /\ route[r].totalPromptLength = 2
        /\ proxyReq[r].URL = cheapModelURL

\* C15: whenever metricsMutex is free, TotalRequests equals the sum of the
\* ModelUsage counts; ModelUsage always holds both tier labels, and before
\* the first update TotalRequests and both counts are 0.
C15_TotalIsSumOfUsage ==
    /\ ~metricsMutex =>
         globalMetrics.TotalRequests = SumUsage(globalMetrics.ModelUsage)
    /\ DOMAIN globalMetrics.ModelUsage = {"CheapModel", "ExpensiveModel"}
    /\ (\A r \in Requests : recorded[r] = 0) =>
         /\ globalMetrics.TotalRequests = 0
         /\ globalMetrics.ModelUsage["CheapModel"] = 0
         /\ globalMetrics.ModelUsage["ExpensiveModel"] = 0

\* the mutex is free after one update, and another handler is about to lock
C15_Witness ==
    /\ ~metricsMutex
    /\ globalMetrics.TotalRequests = 1
    /\ SumUsage(globalMetrics.ModelUsage) = 1
    /\ \E r \in Requests : pc[r] = "lock"

\* The reader is between its Lock and its deferred Unlock.
InSnapshot(m) ==
    mpc[m] \in {"readTotal", "readCost", "readUsage", "write", "unlock"}

\* C16: at most one handler, proxy or metrics, is inside a critical section
\* of metricsMutex, the mutex is locked exactly while one is, and every
\* read or write of globalMetrics is a step of the handler that is inside.
C16_MutualExclusion ==
    /\ [](/\ Cardinality({r \in Requests : InUpdate(r)})
              + Cardinality({m \in Readers : InSnapshot(m)}) <= 1
          /\ metricsMutex <=> (\/ \E r \in Requests : InUpdate(r)
                               \/ \E m \in Readers : InSnapshot(m)))
    /\ [][/\ globalMetrics' # globalMetrics =>
               \E r \in Requests :
                   /\ metricsMutex /\ InUpdate(r)
                   /\ pc'[r] # pc[r]
                   /\ \A q \in Requests \ {r} : ~InUpdate(q)
          /\ reg' # reg =>
               \E r \in Requests :
                   /\ metricsMutex /\ InUpdate(r) /\ reg'[r] # reg[r]
                   /\ \A q \in Requests \ {r} : reg'[q] = reg[q]
          /\ snapshot' # snapshot =>
               \E m \in Readers :
                   /\ metricsMutex /\ InSnapshot(m)
                   /\ \A r \in Requests : ~InUpdate(r)]_vars

\* one handler inside, a second handler and a reader waiting for the mutex
C16_Witness ==
    \E r1, r2 \in Requests, m \in Readers :
        /\ pc[r1] = "storeCost"
        /\ pc[r2] = "lock"
        /\ mpc[m] = "lock"
        /\ metricsMutex

\* C17: whenever metricsMutex is locked, the handler inside the critical
\* section is at a step on globalMetrics, not at a step that reads from or
\* writes to a caller or a backend: no proxy handler is reading a body,
\* waiting on the upstream call or streaming back, and no metrics handler is
\* writing its response, while it holds the mutex.
C17_NoIOUnderLock ==
    metricsMutex =>
        \/ \E r \in Requests :
             InUpdate(r) /\ pc[r] \notin {"readBody", "do", "copy"}
        \/ \E m \in Readers : InSnapshot(m) /\ mpc[m] # "write"

\* The tier label of the endpoint the request was dispatched to.
LabelOfEndpoint(r) ==
    IF proxyReq[r].URL = cheapModelURL THEN "CheapModel" ELSE "ExpensiveModel"

\* C18: the label whose count a handler increments and the rate of the cost
\* it adds are those of the endpoint it dispatched to; the routing decision
\* does not change once the upstream request is built; and a handler is at
\* or past its Lock only after the stream-back copy was attempted.
C18_RecordedAsRouted ==
    /\ [](\A r \in Requests :
            /\ proxyReq[r] # NoProxyReq =>
                /\ route[r].targetURL = proxyReq[r].URL
                /\ route[r].modelName = LabelOfEndpoint(r)
                /\ route[r].costPerChar = RateOfEndpoint(r)
            /\ (pc[r] = "lock" \/ InUpdate(r) \/ recorded[r] > 0) =>
                /\ calls[r] = 1
                /\ w[r].body \in {"all", "partial"})
    /\ [][\A r \in Requests :
            /\ proxyReq[r] # NoProxyReq =>
                /\ route'[r] = route[r]
                /\ proxyReq'[r] = proxyReq[r]
            /\ (pc[r] = "storeCost" /\ pc'[r] # pc[r]) =>
                globalMetrics'.TotalCost =
                    globalMetrics.TotalCost + UserChars(r) * RateOfEndpoint(r)
            /\ (pc[r] = "storeUsage" /\ pc'[r] # pc[r]) =>
                globalMetrics'.ModelUsage =
                    [globalMetrics.ModelUsage EXCEPT
                        ![LabelOfEndpoint(r)] = @ + 1]]_vars

\* a request sent to the expensive endpoint whose stream-back broke off is
\* recorded under ExpensiveModel
C18_Witness ==
    \E r \in Requests :
        /\ pc[r] = "done"
        /\ recorded[r] = 1
        /\ proxyReq[r].URL = expensiveModelURL
        /\ w[r].body = "partial"
        /\ globalMetrics.ModelUsage["ExpensiveModel"] = 1
        /\ globalMetrics.ModelUsage["CheapModel"] = 0

\* C19: a handler calls client.Do at most once, on a request to one of the
\* two endpoints; once the call was made, whether it failed or was answered
\* with whatever status, the handler is never at the call again and the
\* call count and the endpoint stay as they are.
C19_AtMostOneUpstreamCall ==
    /\ [](\A r \in Requests :
            /\ calls[r] <= 1
            /\ calls[r] = 1 =>
                /\ proxyReq[r].URL \in {cheapModelURL, expensiveModelURL}
                /\ pc[r] # "do"
                /\ (err[r] = "transport") # (resp[r] # NoResp))
    /\ [][\A r \in Requests :
            calls[r] = 1 =>
                /\ calls'[r] = 1
                /\ proxyReq'[r].URL = proxyReq[r].URL]_vars

\* a failed call and an error response, each after exactly one call
C19_Witness ==
    \E r1, r2 \in Requests :
        /\ pc[r1] = "done" /\ calls[r1] = 1 /\ err[r1] = "transport"
        /\ pc[r2] = "done" /\ calls[r2] = 1
        /\ resp[r2].StatusCode = StatusInternalServerError

\* The five ways a handler ends, as <<405, 500, 400, 502, mirrored and
\* recorded>>.
Outcomes(r) ==
    <<method[r] # "POST" /\ w[r].status = StatusMethodNotAllowed
         /\ bodyReads[r] = 0 /\ calls[r] = 0 /\ recorded[r] = 0,
      method[r] = "POST" /\ err[r] \in {"read", "newRequest"}
         /\ w[r].status = StatusInternalServerError
         /\ calls[r] = 0 /\ recorded[r] = 0,
      method[r] = "POST" /\ err[r] = "parse"
         /\ w[r].status = StatusBadRequest
         /\ calls[r] = 0 /\ recorded[r] = 0,
      method[r] = "POST" /\ err[r] = "transport"
         /\ w[r].status = StatusBadGateway
         /\ calls[r] = 1 /\ resp[r] = NoResp /\ recorded[r] = 0,
      method[r] = "POST" /\ resp[r] # NoResp
         /\ w[r].status = resp[r].StatusCode
         /\ calls[r] = 1 /\ recorded[r] = 1>>

\* Every handler has returned and the mutex is free.
Terminated ==
    /\ \A r \in Requests : pc[r] = "done"
    /\ \A m \in Readers : mpc[m] = "done"
    /\ ~metricsMutex

\* C20: under fair scheduling there comes a point from which every proxy
\* handler and every metrics handler has returned and metricsMutex is free,
\* so every handler that locked it has unlocked it and none waits for it
\* forever; a returned proxy handler has exactly one of the final outcomes
\* 405, 500, 400, 502 or mirrored upstream response with its metrics
\* update, and stays as it is.
C20_EveryRequestTerminates ==
    /\ <>[]Terminated
    /\ [](\A r \in Requests :
            pc[r] = "done" =>
                /\ w[r].wroteHeader
                /\ Cardinality({k \in 1..5 : Outcomes(r)[k]}) = 1)
    /\ [][\A r \in Requests :
            pc[r] = "done" => pc'[r] = "done" /\ w'[r] = w[r]]_vars

\* a handler waits for the mutex while a metrics handler whose write failed
\* still holds it
C20_Witness ==
    \E r \in Requests, m \in Readers :
        /\ pc[r] = "lock"
        /\ metricsMutex
        /\ mpc[m] = "unlock"
        /\ mw[m].body = "error"
        /\ mw[m].status = StatusOK

====
